---- MODULE Spec2Model ----
(***************************************************************************)
(* Bybit Volume Radar: the volume-anomaly scanner (ScannerEngine, backfill *)
(* revision), the StoreService event/symbol store and its subscribers, the *)
(* candle source, the HistoricalReporter, and the scan functions of the    *)
(* 3-bar and volume-ratio revisions of the scanner.                        *)
(*                                                                         *)
(* Numbers are exact rationals kept as integer numerators over a common    *)
(* denominator; the z-score tests are compared in squared form so that no  *)
(* square root is needed.                                                  *)
(***************************************************************************)
EXTENDS Integers, Sequences, FiniteSets, TLC

VARIABLES
    isScanning,           \* ScannerEngine.isScanning
    intervalId,           \* ScannerEngine.intervalId (0 = null)
    initialBackfillDone,  \* ScannerEngine.initialBackfillDone
    timers,               \* the runtime's active setInterval timers (ids)
    nTimers,              \* number of setInterval ids handed out so far
    symbols,              \* StoreService.symbols (Map, in insertion order)
    events,               \* StoreService.events (newest first)
    cycles,               \* the runLoop invocations in flight, in launch order
    nCycles,              \* number of runLoop invocations launched so far
    mkt,                  \* the upstream 5m candle series (oldest first)
    op,                   \* the last operation that changed the program's state
    report,               \* the generateReport invocation (HistoricalReporter)
    listeners,            \* StoreService.listeners (Set, in insertion order)
    notifying             \* the notify() call in progress, if any

vars == <<isScanning, intervalId, initialBackfillDone, timers, nTimers,
          symbols, events, cycles, nCycles, mkt, op, report, listeners, notifying>>

scannerVars == <<isScanning, intervalId, initialBackfillDone, timers, nTimers>>

\* the report run and the store's subscribers
clientVars == <<report, listeners, notifying>>

(***************************************************************************)
(* Scale of the model.  The program's 500, 5, 21, 50 and 100 are far       *)
(* beyond what can be enumerated; the model keeps their order relations    *)
(* (PERIOD <= MIN_CANDLES < LOOKBACK, several batches per universe, more   *)
(* events than the cap).                                                   *)
(***************************************************************************)
CAP == 2            \* scaled: 500 in StoreService.addEvent
BATCH_SIZE == 1     \* scaled: 5 in runLoop
PERIOD == 2         \* scaled: 21 (getStatsForWindow's period)
NumSymbols == 2     \* size of the discovered universe
MaxCycles == 3      \* runLoop invocations launched in one behaviour
MaxInFlight == 2    \* runLoop invocations in flight at once
NumListeners == 3   \* listeners that may subscribe to the store
MaxCalls == 4       \* listener calls made by one notify()

MIN_CANDLES == PERIOD + 1        \* scaled: 50 (scanSymbol / analyzeHistory)
LOOKBACK == MIN_CANDLES + 2      \* scaled: 100 (scanSymbol)
MaxBars == LOOKBACK              \* bars the upstream series grows to

MAX_RETRIES == 3    \* fetchMarketUniverse

REPORT_PERIOD == 3  \* scaled: 21 (scanHistory's PERIOD)
REPORT_BATCH_SIZE == 2  \* scaled: 10 (generateReport's BATCH_SIZE)
VR_PERIOD == PERIOD \* scaled: 20 (analyze of the volume-ratio revision)

Z_THRESHOLD == 2    \* zScore > 2.0
Z_HIGH == 3         \* zScore > 3.0 ? 'high' : 'medium'

\* DEFAULT_SETTINGS.minZScore and DEFAULT_SETTINGS.minVolumeRatio
minZScore == 2
minVolumeRatio == 2

\* DEFAULT_SETTINGS.soundEnabled
soundEnabled == TRUE

\* the symbols the upstream ranks first (fetchMarketUniverse's result)
UniverseNames == [j \in 1..NumSymbols |-> j]

Null == [null |-> TRUE]

(***************************************************************************)
(* Sequence helpers (Array.prototype.slice, map, sort).                    *)
(***************************************************************************)
Min(a, b) == IF a <= b THEN a ELSE b
Max(a, b) == IF a >= b THEN a ELSE b

\* arr.slice(from, to) with 0-based, end-exclusive indices
Slice(arr, from, to) ==
    LET lo == Min(Max(from, 0), Len(arr))
        hi == Min(Max(to, lo), Len(arr))
    IN  [j \in 1..(hi - lo) |-> arr[lo + j]]

\* arr.slice(-n)
LastN(arr, n) == Slice(arr, Len(arr) - n, Len(arr))

RECURSIVE InsertByTimeDesc(_, _)
\* stable insertion of e after every element whose time is >= e.time
InsertByTimeDesc(sorted, e) ==
    IF sorted = <<>> THEN <<e>>
    ELSE IF Head(sorted).time >= e.time
         THEN <<Head(sorted)>> \o InsertByTimeDesc(Tail(sorted), e)
         ELSE <<e>> \o sorted

RECURSIVE SortByTimeDesc(_)
\* list.sort((a, b) => b.time - a.time): stable, newest first
SortByTimeDesc(list) ==
    IF list = <<>> THEN <<>>
    ELSE InsertByTimeDesc(SortByTimeDesc(Slice(list, 0, Len(list) - 1)), list[Len(list)])

(***************************************************************************)
(* The candle source.  A candle is [time, open, close, volume].  The       *)
(* upstream 5m series is the same for every symbol: alternating quiet bars *)
(* for the warm-up, then bars of growing volume.                           *)
(***************************************************************************)
Upstream(t) ==
    IF t <= MIN_CANDLES
    THEN [time |-> t, open |-> 1, close |-> 1, volume |-> IF t % 2 = 1 THEN 2 ELSE 4]
    ELSE [time |-> t, open |-> 2, close |-> 1 + (t % 2),
          volume |-> 7 + 4 * (t - MIN_CANDLES - 1)]

\* the series once n bars have opened
UpstreamSeries(n) == [t \in 1..n |-> Upstream(t)]

\* what BybitService.fetchCandles settles with during a poll cycle: a
\* rejection, or the newest LOOKBACK candles
FetchOutcomes ==
    { [ok |-> FALSE, candles |-> <<>>],
      [ok |-> TRUE, candles |-> LastN(mkt, LOOKBACK)] }

(***************************************************************************)
(* ScannerEngine statistics.  ema = emaNum / den and                       *)
(* stdDev^2 = sqSum / (n * den^2).                                         *)
(***************************************************************************)
RECURSIVE Pow(_, _)
Pow(b, n) == IF n = 0 THEN 1 ELSE b * Pow(b, n - 1)

RECURSIVE SumSeq(_)
SumSeq(xs) == IF xs = <<>> THEN 0 ELSE Head(xs) + SumSeq(Tail(xs))

RECURSIVE EmaNum(_, _)
\* numerator of the EMA over volumes, over the denominator (period+1)^(Len-1):
\* ema = volumes[j] * k + ema * (1 - k), k = 2 / (period + 1), seeded with volumes[0]
EmaNum(volumes, period) ==
    IF Len(volumes) = 1 THEN volumes[1]
    ELSE LET front == Slice(volumes, 0, Len(volumes) - 1)
         IN  2 * volumes[Len(volumes)] * Pow(period + 1, Len(volumes) - 2)
               + (period - 1) * EmaNum(front, period)

\* getStatsForWindow taking the history up to and including bar endIndex
getStatsForWindowWithCurrent(candles, endIndex, period) ==
    IF endIndex < period THEN Null
    ELSE LET relevantHistory == Slice(candles, 0, endIndex + 1)
             volumes == [j \in 1..Len(relevantHistory) |-> relevantHistory[j].volume]
             den     == Pow(period + 1, Len(volumes) - 1)
             emaNum  == EmaNum(volumes, period)
             recent  == LastN(volumes, period)
             squareDiffs == [j \in 1..Len(recent) |->
                               (recent[j] * den - emaNum) * (recent[j] * den - emaNum)]
         IN  [den |-> den, emaNum |-> emaNum,
              sqSum |-> SumSeq(squareDiffs), n |-> Len(recent)]

getStatsForWindow(candles, endIndex, period) ==
    IF endIndex < period THEN Null
    ELSE LET relevantHistory == Slice(candles, 0, endIndex)
             volumes == [j \in 1..Len(relevantHistory) |-> relevantHistory[j].volume]
             den     == Pow(period + 1, Len(volumes) - 1)
             emaNum  == EmaNum(volumes, period)
             recent  == LastN(volumes, period)
             squareDiffs == [j \in 1..Len(recent) |->
                               (recent[j] * den - emaNum) * (recent[j] * den - emaNum)]
         IN  [den |-> den, emaNum |-> emaNum,
              sqSum |-> SumSeq(squareDiffs), n |-> Len(recent)]

\* stats.stdDev === 0
StdDevIsZero(stats) == stats.sqSum = 0

\* (volume - ema) / stdDev > t, for an integer t >= 0 and stdDev # 0
ZScoreAbove(volume, stats, t) ==
    LET d == volume * stats.den - stats.emaNum
    IN  d > 0 /\ d * d * stats.n > t * t * stats.sqSum

\* zScore = (current.volume - stats.ema) / stats.stdDev, kept unevaluated
ZScore(volume, stats) == [volume |-> volume, stats |-> stats]

\* zScore > t
ZAbove(zScore, t) == ZScoreAbove(zScore.volume, zScore.stats, t)

createEvent(symbol, timeframe, candle, zScore) ==
    [ id |-> <<symbol, timeframe, candle.time>>,
      symbol |-> symbol,
      timeframe |-> timeframe,
      time |-> candle.time,
      type |-> IF candle.close >= candle.open THEN "bullish" ELSE "bearish",
      severity |-> IF ZAbove(zScore, Z_HIGH) THEN "high" ELSE "medium",
      openPrice |-> candle.open,
      closePrice |-> candle.close ]

\* the body of analyzeHistory's loop for the bar at 0-based index i, with a
\* baseline of `period` bars: the events it pushes
analyzeHistoryBar(symbol, timeframe, candles, i, period) ==
    LET stats   == getStatsForWindow(candles, i, period)
        current == candles[i + 1]
        zScore  == ZScore(current.volume, stats)
    IN  IF stats = Null THEN <<>>
        ELSE IF StdDevIsZero(stats) THEN <<>>
        ELSE IF ZAbove(zScore, Z_THRESHOLD)
             THEN <<createEvent(symbol, timeframe, current, zScore)>>
             ELSE <<>>

RECURSIVE AnalyzeFrom(_, _, _, _)
\* analyzeHistory's loop, from 0-based index i to the newest bar
AnalyzeFrom(symbol, timeframe, candles, i) ==
    IF i >= Len(candles) THEN <<>>
    ELSE analyzeHistoryBar(symbol, timeframe, candles, i, PERIOD)
            \o AnalyzeFrom(symbol, timeframe, candles, i + 1)

\* for (let i = 50; i < candles.length; i++) ...
analyzeHistory(symbol, timeframe, candles) ==
    AnalyzeFrom(symbol, timeframe, candles, MIN_CANDLES)

(***************************************************************************)
(* StoreService.                                                           *)
(***************************************************************************)
\* addEvent without the slice to the capacity
addEventNoSlice(evs, event) == <<event>> \o evs

\* events.unshift(event); if (events.length > 500) events = events.slice(0, 500)
addEvent(evs, event) ==
    LET unshifted == <<event>> \o evs
    IN  IF Len(unshifted) > CAP THEN Slice(unshifted, 0, CAP) ELSE unshifted

\* bulk replace that keeps the whole list
setEventsNoCap(list) == SortByTimeDesc(list)

\* bulk replace: the CAP most recent of the list, newest first
setEvents(list) == Slice(SortByTimeDesc(list), 0, CAP)

\* symbols.get(symbol): the 1-based position of the entry, 0 when absent
SymbolIndex(syms, symbol) ==
    IF \E j \in 1..Len(syms) : syms[j].symbol = symbol
    THEN CHOOSE j \in 1..Len(syms) : syms[j].symbol = symbol
    ELSE 0

\* symbols.set(data.symbol, data): a Map keeps a key's first insertion place
updateSymbol(syms, data) ==
    LET j == SymbolIndex(syms, data.symbol)
    IN  IF j = 0 THEN Append(syms, data) ELSE [syms EXCEPT ![j] = data]

RECURSIVE updateSymbols(_, _)
\* data.forEach(s => symbols.set(s.symbol, s))
updateSymbols(syms, data) ==
    IF data = <<>> THEN syms
    ELSE updateSymbols(updateSymbol(syms, Head(data)), Tail(data))

\* the SymbolData entries fetchMarketUniverse builds from the tickers
UniverseData ==
    [j \in 1..NumSymbols |-> [symbol |-> UniverseNames[j], price |-> 0, candles |-> <<>>]]

(***************************************************************************)
(* ScannerEngine.analyzeLatest: the store's events after the call, and the *)
(* effects of the call.                                                    *)
(***************************************************************************)
\* analyzeLatest without the lookup of an existing event
analyzeLatestNoExisting(symbol, timeframe, candles, evs) ==
    LET i       == Len(candles) - 1
        stats   == getStatsForWindow(candles, i, PERIOD)
        current == candles[i + 1]
        zScore  == ZScore(current.volume, stats)
        event   == createEvent(symbol, timeframe, current, zScore)
        none    == [events |-> evs, fx |-> {}]
    IN  IF stats = Null THEN none
        ELSE IF StdDevIsZero(stats) THEN none
        ELSE IF ~ZAbove(zScore, Z_THRESHOLD) THEN none
        ELSE [events |-> addEvent(evs, event),
              fx |-> {"addEvent", "notify", "title"}
                       \cup (IF soundEnabled /\ event.severity = "high"
                             THEN {"ping"} ELSE {})]

\* analyzeLatest playing the sound for every new event
analyzeLatestPingsAnyTier(symbol, timeframe, candles, evs) ==
    LET i       == Len(candles) - 1
        stats   == getStatsForWindow(candles, i, PERIOD)
        current == candles[i + 1]
        zScore  == ZScore(current.volume, stats)
        event   == createEvent(symbol, timeframe, current, zScore)
        existing == \E e \in {evs[j] : j \in 1..Len(evs)} : e.id = event.id
        none    == [events |-> evs, fx |-> {}]
    IN  IF stats = Null THEN none
        ELSE IF StdDevIsZero(stats) THEN none
        ELSE IF ~ZAbove(zScore, Z_THRESHOLD) THEN none
        ELSE IF existing THEN none
        ELSE [events |-> addEvent(evs, event),
              fx |-> {"addEvent", "notify", "title"}
                       \cup (IF soundEnabled THEN {"ping"} ELSE {})]

analyzeLatest(symbol, timeframe, candles, evs) ==
    LET i       == Len(candles) - 1
        stats   == getStatsForWindow(candles, i, PERIOD)
        current == candles[i + 1]
        zScore  == ZScore(current.volume, stats)
        event   == createEvent(symbol, timeframe, current, zScore)
        existing == \E e \in {evs[j] : j \in 1..Len(evs)} : e.id = event.id
        none    == [events |-> evs, fx |-> {}]
    IN  IF stats = Null THEN none
        ELSE IF StdDevIsZero(stats) THEN none
        ELSE IF ~ZAbove(zScore, Z_THRESHOLD) THEN none
        ELSE IF existing THEN none
        ELSE [events |-> addEvent(evs, event),
              fx |-> {"addEvent", "notify", "title"}
                       \cup (IF soundEnabled /\ event.severity = "high"
                             THEN {"ping"} ELSE {})]

\* scanSymbol once fetchCandles has settled with outcome out: the store's
\* symbols and events after it, the events it returns (<<>> for null) and
\* its effects ("error": the catch block's console.error)
scanSymbol(symbol, isBackfill, out, syms, evs) ==
    LET j == SymbolIndex(syms, symbol)
        candles == out.candles
        stored == IF j = 0 THEN syms
                  ELSE updateSymbol(syms,
                         [syms[j] EXCEPT !.candles = candles,
                                         !.price = IF Len(candles) > 0
                                                   THEN candles[Len(candles)].close
                                                   ELSE @])
        cacheFx == IF j = 0 THEN {} ELSE {"cache"}
    IN  IF ~out.ok
        THEN [symbols |-> syms, events |-> evs, returned |-> <<>>, fx |-> {"error"}]
        ELSE IF Len(candles) < MIN_CANDLES
        THEN [symbols |-> stored, events |-> evs, returned |-> <<>>, fx |-> cacheFx]
        ELSE IF isBackfill
        THEN [symbols |-> stored, events |-> evs,
              returned |-> analyzeHistory(symbol, "5m", candles), fx |-> cacheFx]
        ELSE LET r == analyzeLatest(symbol, "5m", candles, evs)
             IN  [symbols |-> stored, events |-> r.events,
                  returned |-> <<>>, fx |-> cacheFx \cup r.fx]

(***************************************************************************)
(* ScannerEngine.runLoop.  A cycle is one invocation of runLoop:           *)
(*   pc = "universe"  awaiting fetchMarketUniverse's request               *)
(*   pc = "backoff"   awaiting fetchMarketUniverse's 2 s wait after a      *)
(*                    failed attempt                                       *)
(*   pc = "batch"     awaiting Promise.all of the batch at index i         *)
(*   pc = "delay"     awaiting the 200 ms timeout after the batch          *)
(*   pc = "ended"     returned or rejected                                 *)
(* pending holds the scanSymbol calls of the batch still awaiting          *)
(* fetchCandles, each with the isBackfill argument it was called with.     *)
(* live records whether the backfill flag was set when the invocation      *)
(* began (a history field: the code keeps no such value).  attempt is      *)
(* fetchMarketUniverse's counter of failed attempts.  session is a history *)
(* field too: the number of the start() call that made the invocation (the *)
(* first call is 1), and 0 when the interval timer made it.                *)
(***************************************************************************)
EndedCycle ==
    [pc |-> "ended", symbols |-> <<>>, i |-> 0, backfillEvents |-> <<>>, pending |-> {},
     live |-> FALSE, attempt |-> 0, session |-> 0]

\* the for loop without the await of each batch: every symbol from index i
\* on is scanned at once
LoopFromAllAtOnce(syms, i, backfillEvents, scanning, done, evs) ==
    IF i < Len(syms) /\ scanning
    THEN [cycle |-> [pc |-> "batch", symbols |-> syms, i |-> i,
                     backfillEvents |-> backfillEvents, live |-> FALSE, attempt |-> 0,
                     session |-> 0,
                     pending |-> {[symbol |-> syms[j], isBackfill |-> ~done] :
                                    j \in (i + 1)..Len(syms)}],
          events |-> evs, done |-> done, fx |-> {}]
    ELSE IF ~done
    THEN [cycle |-> EndedCycle,
          events |-> setEvents(SortByTimeDesc(backfillEvents)),
          done |-> TRUE, fx |-> {"setEvents", "notify", "flag"}]
    ELSE [cycle |-> EndedCycle, events |-> evs, done |-> done, fx |-> {}]

\* the for loop from its test at index i on, up to the next await or the
\* return: the cycle's record, the store's events, the backfill flag and
\* the effects
LoopFrom(syms, i, backfillEvents, scanning, done, evs) ==
    IF i < Len(syms) /\ scanning
    THEN [cycle |-> [pc |-> "batch", symbols |-> syms, i |-> i,
                     backfillEvents |-> backfillEvents, live |-> FALSE, attempt |-> 0,
                     session |-> 0,
                     pending |-> {[symbol |-> syms[j], isBackfill |-> ~done] :
                                    j \in (i + 1)..Min(i + BATCH_SIZE, Len(syms))}],
          events |-> evs, done |-> done, fx |-> {}]
    ELSE IF ~done
    THEN [cycle |-> EndedCycle,
          events |-> setEvents(SortByTimeDesc(backfillEvents)),
          done |-> TRUE, fx |-> {"setEvents", "notify", "flag"}]
    ELSE [cycle |-> EndedCycle, events |-> evs, done |-> done, fx |-> {}]

\* runLoop from its call to its first await
runLoop(scanning, done, syms, evs) ==
    IF Len(syms) = 0
    THEN [cycle |-> [EndedCycle EXCEPT !.pc = "universe"],
          events |-> evs, done |-> done, fx |-> {}]
    ELSE LoopFrom([j \in 1..Len(syms) |-> syms[j].symbol], 0, <<>>, scanning, done, evs)

\* the record of an operation: its name, the symbol and candles of a live
\* scan, the argument of a direct store call, its effects, and whether it
\* repeats the live scan before it (same symbol, same candles)
Op(name, symbol, candles, arg, fx) ==
    [name |-> name, symbol |-> symbol, candles |-> candles, arg |-> arg, fx |-> fx,
     rep |-> /\ name = "scanLive"
             /\ op.name = "scanLive"
             /\ op.symbol = symbol
             /\ op.candles = candles]

\* no generateReport call has been made
NoReport ==
    [pc |-> "idle", minZ |-> 0, i |-> 0, progress |-> <<>>, pending |-> {},
     results |-> <<>>, fetched |-> {}, failed |-> {}]

\* no notify() call has been made
NotNotifying == [pc |-> "idle", cursor |-> 0, called |-> <<>>, atStart |-> <<>>]

\* a runLoop invocation may be launched within the model's bounds
MayLaunch == nCycles < MaxCycles /\ Len(cycles) < MaxInFlight

\* the cycles in flight once a launched invocation has reached its first await
\* or returned
Launched(cycle, live, session) ==
    IF cycle.pc = "ended"
    THEN cycles
    ELSE Append(cycles, [cycle EXCEPT !.live = live, !.session = session])

\* the cycles in flight once cycle c has gone on to its next await or ended
Advanced(c, cycle) ==
    IF cycle.pc = "ended"
    THEN [j \in 1..(Len(cycles) - 1) |-> IF j < c THEN cycles[j] ELSE cycles[j + 1]]
    ELSE [cycles EXCEPT ![c] = [cycle EXCEPT !.live = cycles[c].live,
                                             !.session = cycles[c].session]]

(***************************************************************************)
(* Actions.                                                                *)
(***************************************************************************)
\* start() without the isScanning guard
StartUnguarded ==
    /\ MayLaunch
    /\ LET r == runLoop(TRUE, FALSE, symbols, events)
       IN  /\ isScanning' = TRUE
           /\ initialBackfillDone' = r.done
           /\ cycles' = Launched(r.cycle, FALSE, nTimers + 1)
           /\ nCycles' = nCycles + 1
           /\ events' = r.events
           /\ op' = Op("start", 0, <<>>, <<>>, r.fx)
    /\ nTimers' = nTimers + 1
    /\ intervalId' = nTimers + 1
    /\ timers' = timers \cup {nTimers + 1}
    /\ UNCHANGED <<symbols, mkt, clientVars>>

\* start()
Start ==
    IF isScanning
    THEN /\ op' = Op("startNoop", 0, <<>>, <<>>, {})
         /\ UNCHANGED <<scannerVars, symbols, events, cycles, nCycles, mkt, clientVars>>
    ELSE /\ MayLaunch
         /\ LET r == runLoop(TRUE, FALSE, symbols, events)
            IN  /\ isScanning' = TRUE
                /\ initialBackfillDone' = r.done
                /\ cycles' = Launched(r.cycle, FALSE, nTimers + 1)
                /\ nCycles' = nCycles + 1
                /\ events' = r.events
                /\ op' = Op("start", 0, <<>>, <<>>, r.fx)
         /\ nTimers' = nTimers + 1
         /\ intervalId' = nTimers + 1
         /\ timers' = timers \cup {nTimers + 1}
         /\ UNCHANGED <<symbols, mkt, clientVars>>

\* stop() without the clearInterval
StopKeepsTimer ==
    /\ isScanning' = FALSE
    /\ op' = IF isScanning THEN Op("stop", 0, <<>>, <<>>, {}) ELSE op
    /\ UNCHANGED <<intervalId, initialBackfillDone, timers, nTimers, symbols, events,
                   cycles, nCycles, mkt, clientVars>>

\* stop()
Stop ==
    /\ isScanning' = FALSE
    /\ timers' = IF intervalId # 0 THEN timers \ {intervalId} ELSE timers
    /\ op' = IF isScanning \/ intervalId \in timers
             THEN Op("stop", 0, <<>>, <<>>, {}) ELSE op
    /\ UNCHANGED <<intervalId, initialBackfillDone, nTimers, symbols, events,
                   cycles, nCycles, mkt, clientVars>>

\* an active interval timer fires: () => this.runLoop()
TimerFires ==
    /\ timers # {}
    /\ MayLaunch
    /\ LET r == runLoop(isScanning, initialBackfillDone, symbols, events)
       IN  /\ cycles' = Launched(r.cycle, initialBackfillDone, 0)
           /\ nCycles' = nCycles + 1
           /\ events' = r.events
           /\ initialBackfillDone' = r.done
           /\ op' = Op("timer", 0, <<>>, <<>>, r.fx)
    /\ UNCHANGED <<isScanning, intervalId, timers, nTimers, symbols, mkt, clientVars>>

\* fetchMarketUniverse returns the universe to cycle c
UniverseArrives(c) ==
    /\ cycles[c].pc = "universe"
    /\ LET stored == updateSymbols(symbols, UniverseData)
           r == LoopFrom(UniverseNames, 0, <<>>, isScanning, initialBackfillDone, events)
       IN  /\ symbols' = stored
           /\ cycles' = Advanced(c, r.cycle)
           /\ events' = r.events
           /\ initialBackfillDone' = r.done
           /\ op' = Op("universe", 0, <<>>, <<>>, r.fx \cup {"updateSymbols", "notify"})
    /\ UNCHANGED <<isScanning, intervalId, timers, nTimers, nCycles, mkt, clientVars>>

\* fetchMarketUniverse with the ceiling tested as attempt > MAX_RETRIES
UniverseFailsOffByOne(c) ==
    /\ cycles[c].pc = "universe"
    /\ LET attempt == cycles[c].attempt + 1
       IN  IF attempt > MAX_RETRIES
           THEN /\ cycles' = Advanced(c, EndedCycle)
                /\ op' = Op("universeFailed", 0, <<>>, <<>>, {})
           ELSE /\ cycles' = [cycles EXCEPT ![c].pc = "backoff", ![c].attempt = attempt]
                /\ op' = op
    /\ UNCHANGED <<scannerVars, symbols, events, nCycles, mkt, clientVars>>

\* runLoop catching the discovery error and going on with an empty universe
UniverseFailsGoesOn(c) ==
    /\ cycles[c].pc = "universe"
    /\ LET attempt == cycles[c].attempt + 1
           r == LoopFrom(<<>>, 0, <<>>, isScanning, initialBackfillDone, events)
       IN  IF attempt >= MAX_RETRIES
           THEN /\ cycles' = Advanced(c, r.cycle)
                /\ events' = r.events
                /\ initialBackfillDone' = r.done
                /\ op' = Op("universeFailed", 0, <<>>, <<>>, r.fx)
           ELSE /\ cycles' = [cycles EXCEPT ![c].pc = "backoff", ![c].attempt = attempt]
                /\ op' = op
                /\ UNCHANGED <<events, initialBackfillDone>>
    /\ UNCHANGED <<isScanning, intervalId, timers, nTimers, symbols, nCycles, mkt, clientVars>>

\* the request of fetchMarketUniverse fails in cycle c: attempt++, then
\* either the 2 s wait before the next attempt, or the error is thrown and
\* cycle c's runLoop rejects with it
UniverseFails(c) ==
    /\ cycles[c].pc = "universe"
    /\ LET attempt == cycles[c].attempt + 1
       IN  IF attempt >= MAX_RETRIES
           THEN /\ cycles' = Advanced(c, EndedCycle)
                /\ op' = Op("universeFailed", 0, <<>>, <<>>, {})
           ELSE /\ cycles' = [cycles EXCEPT ![c].pc = "backoff", ![c].attempt = attempt]
                /\ op' = op
    /\ UNCHANGED <<scannerVars, symbols, events, nCycles, mkt, clientVars>>

\* the 2 s wait of fetchMarketUniverse elapses in cycle c: the loop issues
\* the next request
BackoffElapses(c) ==
    /\ cycles[c].pc = "backoff"
    /\ cycles' = [cycles EXCEPT ![c].pc = "universe"]
    /\ UNCHANGED <<scannerVars, symbols, events, nCycles, mkt, op, clientVars>>

\* scanSymbol without its try/catch: a failed fetch rejects Promise.all and
\* the cycle's runLoop with it
ScanSettlesUncaught(c, scan, out) ==
    /\ cycles[c].pc = "batch"
    /\ scan \in cycles[c].pending
    /\ LET r == scanSymbol(scan.symbol, scan.isBackfill, out, symbols, events)
           rest == cycles[c].pending \ {scan}
       IN  /\ symbols' = r.symbols
           /\ events' = r.events
           /\ cycles' = IF out.ok
                        THEN [cycles EXCEPT
                                ![c].backfillEvents = @ \o r.returned,
                                ![c].pending = rest,
                                ![c].pc = IF rest = {} THEN "delay" ELSE "batch"]
                        ELSE Advanced(c, EndedCycle)
           /\ op' = IF scan.isBackfill
                    THEN Op("scanBackfill", 0, <<>>, <<>>, r.fx)
                    ELSE Op("scanLive", scan.symbol, out.candles, <<>>, r.fx)
    /\ UNCHANGED <<scannerVars, nCycles, mkt, clientVars>>

\* fetchCandles settles for one scanSymbol call of cycle c's batch; the
\* call's continuation runs, and with the last call of the batch Promise.all
\* resolves and the cycle starts its 200 ms delay
ScanSettles(c, scan, out) ==
    /\ cycles[c].pc = "batch"
    /\ scan \in cycles[c].pending
    /\ LET r == scanSymbol(scan.symbol, scan.isBackfill, out, symbols, events)
           rest == cycles[c].pending \ {scan}
       IN  /\ symbols' = r.symbols
           /\ events' = r.events
           /\ cycles' = [cycles EXCEPT
                           ![c].backfillEvents = @ \o r.returned,
                           ![c].pending = rest,
                           ![c].pc = IF rest = {} THEN "delay" ELSE "batch"]
           /\ op' = IF scan.isBackfill
                    THEN Op("scanBackfill", 0, <<>>, <<>>, r.fx)
                    ELSE Op("scanLive", scan.symbol, out.candles, <<>>, r.fx)
    /\ UNCHANGED <<scannerVars, nCycles, mkt, clientVars>>

\* the 200 ms delay of cycle c elapses: i += BATCH_SIZE and the loop goes on
DelayElapses(c) ==
    /\ cycles[c].pc = "delay"
    /\ LET r == LoopFrom(cycles[c].symbols, cycles[c].i + BATCH_SIZE,
                         cycles[c].backfillEvents, isScanning, initialBackfillDone, events)
       IN  /\ cycles' = Advanced(c, r.cycle)
           /\ events' = r.events
           /\ initialBackfillDone' = r.done
           /\ op' = Op("delay", 0, <<>>, <<>>, r.fx)
    /\ UNCHANGED <<isScanning, intervalId, timers, nTimers, symbols, nCycles, mkt, clientVars>>

\* upstream: a new 5m bar opens
NewBar ==
    /\ Len(mkt) < MaxBars
    /\ mkt' = Append(mkt, Upstream(Len(mkt) + 1))
    /\ UNCHANGED <<scannerVars, symbols, events, cycles, nCycles, op, clientVars>>

Init ==
    /\ isScanning = FALSE
    /\ intervalId = 0
    /\ initialBackfillDone = FALSE
    /\ timers = {}
    /\ nTimers = 0
    /\ symbols = <<>>
    /\ events = <<>>
    /\ cycles = <<>>
    /\ nCycles = 0
    /\ mkt = UpstreamSeries(MIN_CANDLES)
    /\ op = [name |-> "init", symbol |-> 0, candles |-> <<>>, arg |-> <<>>,
             fx |-> {}, rep |-> FALSE]
    /\ report = NoReport
    /\ listeners = <<>>
    /\ notifying = NotNotifying

Next ==
    \/ Start
    \/ Stop
    \/ TimerFires
    \/ \E c \in 1..Len(cycles) : UniverseArrives(c)
    \/ \E c \in 1..Len(cycles) : UniverseFails(c)
    \/ \E c \in 1..Len(cycles) : BackoffElapses(c)
    \/ \E c \in 1..Len(cycles) : \E scan \in cycles[c].pending :
          \E out \in FetchOutcomes : ScanSettles(c, scan, out)
    \/ \E c \in 1..Len(cycles) : DelayElapses(c)
    \/ NewBar

Spec == Init /\ [][Next]_vars

(***************************************************************************)
(* ScannerEngine of the 3-bar revision: the statistics of a candle list    *)
(* whose last element is the bar being scored.                             *)
(***************************************************************************)
calculateStatistics(candles, period) ==
    IF Len(candles) < period + 1 THEN Null      \* scaled: period + 10
    ELSE LET volumes == [j \in 1..Len(candles) |-> candles[j].volume]
             historyVectors == Slice(volumes, 0, Len(volumes) - 1)
             den     == Pow(period + 1, Len(historyVectors) - 1)
             emaNum  == EmaNum(historyVectors, period)
             recentHistory == LastN(historyVectors, period)
             squareDiffs == [j \in 1..Len(recentHistory) |->
                               (recentHistory[j] * den - emaNum)
                                 * (recentHistory[j] * den - emaNum)]
         IN  [den |-> den, emaNum |-> emaNum,
              sqSum |-> SumSeq(squareDiffs), n |-> Len(recentHistory)]

(***************************************************************************)
(* HistoricalReporter.scanHistory and calculateStats.                      *)
(***************************************************************************)
\* k = 2 / (values.length + 1); the deviation is taken over the whole window
calculateStats(window) ==
    IF window = <<>> THEN Null
    ELSE LET volumes == [j \in 1..Len(window) |-> window[j].volume]
             den     == Pow(Len(volumes) + 1, Len(volumes) - 1)
             emaNum  == EmaNum(volumes, Len(volumes))
             squareDiffs == [j \in 1..Len(volumes) |->
                               (volumes[j] * den - emaNum) * (volumes[j] * den - emaNum)]
         IN  [den |-> den, emaNum |-> emaNum,
              sqSum |-> SumSeq(squareDiffs), n |-> Len(volumes)]

\* (volume - ema) / stdDev >= t, for an integer t >= 0 and stdDev # 0
ZScoreAtLeast(volume, stats, t) ==
    LET d == volume * stats.den - stats.emaNum
    IN  d >= 0 /\ d * d * stats.n >= t * t * stats.sqSum

\* zScore >= t
ZAtLeast(zScore, t) == ZScoreAtLeast(zScore.volume, zScore.stats, t)

\* candles.slice(i - PERIOD, i)
ReportWindow(candles, i) == Slice(candles, i - REPORT_PERIOD, i)

\* the body of scanHistory's loop for the bar at 0-based index i, given the
\* window of the bars before it: the events it pushes
scanHistoryBar(symbol, timeframe, candles, minZ, i, window) ==
    LET current == candles[i + 1]
        stats   == calculateStats(window)
        zScore  == ZScore(current.volume, stats)
    IN  IF stats = Null THEN <<>>
        ELSE IF StdDevIsZero(stats) THEN <<>>
        ELSE IF ZAtLeast(zScore, minZ)
             THEN <<createEvent(symbol, timeframe, current, zScore)>>
             ELSE <<>>

RECURSIVE ScanHistoryFrom(_, _, _, _, _)
\* scanHistory's loop, from 0-based index i to the newest bar
ScanHistoryFrom(symbol, timeframe, candles, minZ, i) ==
    IF i >= Len(candles) THEN <<>>
    ELSE scanHistoryBar(symbol, timeframe, candles, minZ, i, ReportWindow(candles, i))
            \o ScanHistoryFrom(symbol, timeframe, candles, minZ, i + 1)

scanHistory(symbol, timeframe, candles, minZ) ==
    IF Len(candles) < REPORT_PERIOD + 1 THEN <<>>      \* scaled: PERIOD + 10
    ELSE ScanHistoryFrom(symbol, timeframe, candles, minZ, REPORT_PERIOD)

(***************************************************************************)
(* ScannerEngine.analyze of the volume-ratio revision: the store's events  *)
(* after the call, and the effects of the call.  With n = history.length:  *)
(* avgVol = sum / n, volRatio = current * n / sum and                      *)
(* stdDev^2 = sqSum / n^3 for sqSum the sum of (volume * n - sum)^2.       *)
(***************************************************************************)
analyze(symbol, timeframe, candles, evs) ==
    LET none    == [events |-> evs, fx |-> {}]
        current == candles[Len(candles)]
        history == LastN(Slice(candles, 0, Len(candles) - 1), VR_PERIOD)
        n       == Len(history)
        sum     == SumSeq([j \in 1..n |-> history[j].volume])
        sqSum   == SumSeq([j \in 1..n |->
                             (history[j].volume * n - sum) * (history[j].volume * n - sum)])
        d       == current.volume * n - sum
        \* zScore = stdDev === 0 ? 0 : (current.volume - avgVol) / stdDev
        zAtLeast(t) == IF sqSum = 0 THEN 0 >= t
                       ELSE d >= 0 /\ d * d * n >= t * t * sqSum
        zAbove(t)   == IF sqSum = 0 THEN 0 > t
                       ELSE d > 0 /\ d * d * n > t * t * sqSum
        ratioAtLeast(t) == current.volume * n >= t * sum
        ratioAbove(t)   == current.volume * n > t * sum
        isVolSpike    == ratioAtLeast(minVolumeRatio)
        isZScoreSpike == zAtLeast(minZScore)
        severity == IF zAbove(4) \/ ratioAbove(5) THEN "climactic"
                    ELSE IF zAbove(3) \/ ratioAbove(3) THEN "strong"
                    ELSE "mild"
        event   == [ id |-> <<symbol, timeframe, current.time>>,
                     symbol |-> symbol,
                     timeframe |-> timeframe,
                     time |-> current.time,
                     severity |-> severity,
                     price |-> current.close ]
        existing == \E e \in {evs[j] : j \in 1..Len(evs)} : e.id = event.id
    IN  IF Len(candles) < VR_PERIOD THEN none            \* scaled: 20
        ELSE IF n = 0 THEN none
        ELSE IF sum = 0 THEN none
        ELSE IF ~(isVolSpike \/ isZScoreSpike) THEN none
        ELSE IF existing THEN none
        ELSE [events |-> addEvent(evs, event),
              fx |-> {"addEvent", "notify", "title"}
                       \cup (IF soundEnabled /\ severity \in {"strong", "climactic"}
                             THEN {"ping"} ELSE {})]

(***************************************************************************)
(* The store and the live scan called directly (specification SpecStore):  *)
(* any sequence of addEvent and setEvents calls with events of a small     *)
(* pool, and live scans of the first symbol at any length of the upstream  *)
(* series.  The store holds no symbol, so a scan writes no candle cache.   *)
(***************************************************************************)
\* z = volume: statistics with ema 0 and stdDev 1
UnitStats == [den |-> 1, emaNum |-> 0, sqSum |-> 1, n |-> 1]

\* the bar times of the pool's events: the newest CAP + 2 bars
PoolTimes == (MaxBars - CAP - 1)..MaxBars

\* the events callers pass to the store: one per pool time, of symbol 1
EventPool ==
    {createEvent(1, "5m", Upstream(t), ZScore(Upstream(t).volume, UnitStats)) : t \in PoolTimes}

\* the lists callers pass to setEvents: distinct events of the pool, any order
EventLists ==
    {list \in UNION {[1..n -> EventPool] : n \in 0..(CAP + 1)} :
        \A a, b \in 1..Len(list) : a # b => list[a] # list[b]}

\* Store.addEvent(e)
AddEventCall(e) ==
    /\ events' = addEvent(events, e)
    /\ op' = Op("addEvent", 0, <<>>, <<e>>,
                {"addEvent", "notify"} \cup (IF Len(events) + 1 > CAP THEN {"slice"} ELSE {}))
    /\ UNCHANGED <<scannerVars, symbols, cycles, nCycles, mkt, clientVars>>

\* Store.setEvents(list)
SetEventsCall(list) ==
    /\ events' = setEvents(list)
    /\ op' = Op("setEvents", 0, <<>>, list, {"setEvents", "notify"})
    /\ UNCHANGED <<scannerVars, symbols, cycles, nCycles, mkt, clientVars>>

\* scanSymbol(symbol, settings, false) whose fetchCandles resolves with the
\* newest LOOKBACK candles of the series of n bars
LiveScanCall(symbol, n) ==
    LET out == [ok |-> TRUE, candles |-> LastN(UpstreamSeries(n), LOOKBACK)]
        r == scanSymbol(symbol, FALSE, out, symbols, events)
    IN  /\ symbols' = r.symbols
        /\ events' = r.events
        /\ op' = Op("scanLive", symbol, out.candles, <<>>, r.fx)
        /\ UNCHANGED <<scannerVars, cycles, nCycles, mkt, clientVars>>

InitStore ==
    /\ isScanning = FALSE
    /\ intervalId = 0
    /\ initialBackfillDone = TRUE
    /\ timers = {}
    /\ nTimers = 0
    /\ symbols = <<>>
    /\ events = <<>>
    /\ cycles = <<>>
    /\ nCycles = 0
    /\ mkt = UpstreamSeries(MaxBars)
    /\ op = [name |-> "init", symbol |-> 0, candles |-> <<>>, arg |-> <<>>,
             fx |-> {}, rep |-> FALSE]
    /\ report = NoReport
    /\ listeners = <<>>
    /\ notifying = NotNotifying

NextStore ==
    \/ \E e \in EventPool : AddEventCall(e)
    \/ \E list \in EventLists : SetEventsCall(list)
    \/ \E n \in MIN_CANDLES..MaxBars : LiveScanCall(UniverseNames[1], n)

SpecStore == InitStore /\ [][NextStore]_vars

(***************************************************************************)
(* The scans called directly on one candle list (specification SpecScan):  *)
(* the list is any sequence of bars with volumes of a small set, and each  *)
(* step applies one of the scan or statistics functions to it.             *)
(***************************************************************************)
\* the volumes of the bars: 10 1 1 has ema 2 and stdDev 1 under
\* getStatsForWindow with period 2, 1 1 3 has them under calculateStats
ScanVolumes == {1, 3, 4, 5, 10}

\* the lengths of the list: too short for a scan, and one bar to score
ScanLens == {MIN_CANDLES, Max(MIN_CANDLES, REPORT_PERIOD) + 1}

ScanInputs ==
    UNION {[1..n -> {[time |-> 0, open |-> 1, close |-> 2, volume |-> v] : v \in ScanVolumes}]
             : n \in ScanLens}

\* the candle list with the bar times fetchCandles delivers (oldest first)
Timed(candles) == [j \in 1..Len(candles) |-> [candles[j] EXCEPT !.time = j]]

\* the thresholds a report is configured with (ReportConfig.minZScore)
MinZScores == {minZScore, Z_HIGH}

\* the 0-based indices of the bars a call may score
ScanIndices == 0..(Len(mkt) - 1)

\* analyzeHistory(symbol, '5m', candles)
AnalyzeHistoryCall ==
    /\ op' = Op("analyzeHistory", 1, mkt, <<analyzeHistory(1, "5m", mkt)>>, {})
    /\ UNCHANGED <<scannerVars, symbols, events, cycles, nCycles, mkt, clientVars>>

\* analyzeLatest(symbol, '5m', candles)
AnalyzeLatestCall ==
    LET r == analyzeLatest(1, "5m", mkt, events)
    IN  /\ events' = r.events
        /\ op' = Op("analyzeLatest", 1, mkt, <<>>, r.fx)
        /\ UNCHANGED <<scannerVars, symbols, cycles, nCycles, mkt, clientVars>>

\* scanHistory(symbol, '5m', candles, minZ)
ScanHistoryCall(minZ) ==
    /\ op' = Op("scanHistory", 1, mkt, <<minZ, scanHistory(1, "5m", mkt, minZ)>>, {})
    /\ UNCHANGED <<scannerVars, symbols, events, cycles, nCycles, mkt, clientVars>>

\* analyze(symbol, '30m', candles, settings) of the volume-ratio revision
AnalyzeCall ==
    LET r == analyze(1, "30m", mkt, events)
    IN  /\ events' = r.events
        /\ op' = Op("analyze", 1, mkt, <<>>, r.fx)
        /\ UNCHANGED <<scannerVars, symbols, cycles, nCycles, mkt, clientVars>>

\* getStatsForWindow(candles, i, 21), as analyzeHistory and analyzeLatest call it
GetStatsForWindowCall(i) ==
    /\ op' = Op("getStatsForWindow", 1, mkt, <<i, getStatsForWindow(mkt, i, PERIOD)>>, {})
    /\ UNCHANGED <<scannerVars, symbols, events, cycles, nCycles, mkt, clientVars>>

\* calculateStatistics(candles.slice(0, i + 1), 21), as the 3-bar analyze calls it
CalculateStatisticsCall(i) ==
    /\ op' = Op("calculateStatistics", 1, mkt,
                <<i, calculateStatistics(Slice(mkt, 0, i + 1), PERIOD)>>, {})
    /\ UNCHANGED <<scannerVars, symbols, events, cycles, nCycles, mkt, clientVars>>

\* the bar at index i scored by both replay scans on the same candles, each
\* with a baseline of PERIOD bars: the body of analyzeHistory's loop and the
\* body of scanHistory's loop with threshold minZ
ScoreBarCall(i, minZ) ==
    /\ i >= PERIOD
    /\ op' = Op("scoreBar", 1, mkt,
                <<i, minZ, analyzeHistoryBar(1, "5m", mkt, i, PERIOD),
                  scanHistoryBar(1, "5m", mkt, minZ, i, Slice(mkt, i - PERIOD, i))>>, {})
    /\ UNCHANGED <<scannerVars, symbols, events, cycles, nCycles, mkt, clientVars>>

\* calculateStats(candles.slice(i - PERIOD, i)), as scanHistory calls it
CalculateStatsCall(i) ==
    /\ i >= REPORT_PERIOD
    /\ op' = Op("calculateStats", 1, mkt, <<i, calculateStats(ReportWindow(mkt, i))>>, {})
    /\ UNCHANGED <<scannerVars, symbols, events, cycles, nCycles, mkt, clientVars>>

InitScan ==
    /\ isScanning = FALSE
    /\ intervalId = 0
    /\ initialBackfillDone = TRUE
    /\ timers = {}
    /\ nTimers = 0
    /\ symbols = <<>>
    /\ events = <<>>
    /\ cycles = <<>>
    /\ nCycles = 0
    /\ mkt \in {Timed(candles) : candles \in ScanInputs}
    /\ op = [name |-> "init", symbol |-> 0, candles |-> <<>>, arg |-> <<>>,
             fx |-> {}, rep |-> FALSE]
    /\ report = NoReport
    /\ listeners = <<>>
    /\ notifying = NotNotifying

NextScan ==
    \/ AnalyzeHistoryCall
    \/ AnalyzeLatestCall
    \/ \E minZ \in MinZScores : ScanHistoryCall(minZ)
    \/ AnalyzeCall
    \/ \E i \in ScanIndices : GetStatsForWindowCall(i)
    \/ \E i \in ScanIndices : CalculateStatisticsCall(i)
    \/ \E i \in ScanIndices : CalculateStatsCall(i)
    \/ \E i \in ScanIndices : \E minZ \in MinZScores : ScoreBarCall(i, minZ)

SpecScan == InitScan /\ [][NextScan]_vars

(***************************************************************************)
(* HistoricalReporter.generateReport, run beside the scanner               *)
(* (specification SpecReport).  A report covers the universe's symbols on  *)
(* two timeframes; the scanner is started once and may be stopped.         *)
(***************************************************************************)
\* config.symbols and config.timeframes
ReportSymbols == UniverseNames
ReportTimeframes == <<"30m", "240">>

\* tasks: for (symbol of config.symbols) for (tf of config.timeframes)
ReportTasks ==
    [t \in 1..(Len(ReportSymbols) * Len(ReportTimeframes)) |->
        [symbol |-> ReportSymbols[((t - 1) \div Len(ReportTimeframes)) + 1],
         timeframe |-> ReportTimeframes[((t - 1) % Len(ReportTimeframes)) + 1]]]

\* the volumes of the upstream series of a timeframe: a quiet stretch and a
\* spike on the last bar
ReportVolumes(timeframe) ==
    [j \in 1..(REPORT_PERIOD - 1) |-> 1]
      \o (IF timeframe = "30m" THEN <<3, 5>> ELSE <<3, 1, 10>>)

\* the candles fetchCandles resolves with for a task
ReportCandles(task) ==
    [j \in 1..Len(ReportVolumes(task.timeframe)) |->
        [time |-> j, open |-> 1, close |-> 2, volume |-> ReportVolumes(task.timeframe)[j]]]

\* what fetchCandles settles with for a task: a rejection or the candles
ReportFetchOutcomes(task) ==
    { [ok |-> FALSE, candles |-> <<>>],
      [ok |-> TRUE, candles |-> ReportCandles(task)] }

\* the loop with the progress call made after a batch, with the number of
\* tasks done so far
ReportFromCountsDone(r, i) ==
    IF i < Len(ReportTasks)
    THEN [r EXCEPT !.pc = "batch",
                   !.i = i,
                   !.progress = IF i = 0 THEN @ ELSE <<i, Len(ReportTasks)>>,
                   !.pending = {ReportTasks[t] :
                                  t \in (i + 1)..Min(i + REPORT_BATCH_SIZE, Len(ReportTasks))}]
    ELSE [r EXCEPT !.pc = "returned", !.i = i,
                   !.progress = <<Len(ReportTasks), Len(ReportTasks)>>,
                   !.results = SortByTimeDesc(r.results)]

\* the loop of generateReport from index i: the progress message and the
\* batch's fetches, or the sorted results once the tasks are exhausted
ReportFrom(r, i) ==
    IF i < Len(ReportTasks)
    THEN [r EXCEPT !.pc = "batch",
                   !.i = i,
                   !.progress = <<Min(i + REPORT_BATCH_SIZE, Len(ReportTasks)),
                                  Len(ReportTasks)>>,
                   !.pending = {ReportTasks[t] :
                                  t \in (i + 1)..Min(i + REPORT_BATCH_SIZE, Len(ReportTasks))}]
    ELSE [r EXCEPT !.pc = "returned", !.i = i, !.results = SortByTimeDesc(r.results)]

\* generateReport(config, onProgress) is called
GenerateReport(minZ) ==
    /\ report.pc = "idle"
    /\ report' = ReportFrom([NoReport EXCEPT !.minZ = minZ], 0)
    /\ UNCHANGED <<scannerVars, symbols, events, cycles, nCycles, mkt, op,
                   listeners, notifying>>

\* generateReport without the try/catch around a task
ReportFetchSettlesUncaught(task, out) ==
    /\ report.pc = "batch"
    /\ task \in report.pending
    /\ LET rest == report.pending \ {task}
       IN  report' =
             IF out.ok
             THEN [report EXCEPT
                     !.results = @ \o scanHistory(task.symbol, task.timeframe,
                                                  out.candles, report.minZ),
                     !.fetched = @ \cup {task},
                     !.pending = rest,
                     !.pc = IF rest = {} THEN "delay" ELSE "batch"]
             ELSE [report EXCEPT !.pc = "rejected"]
    /\ UNCHANGED <<scannerVars, symbols, events, cycles, nCycles, mkt, op,
                   listeners, notifying>>

\* fetchCandles settles for one task of the batch: its anomalies are pushed
\* to the results, or the failure is logged
ReportFetchSettles(task, out) ==
    /\ report.pc = "batch"
    /\ task \in report.pending
    /\ LET rest == report.pending \ {task}
       IN  report' =
             [report EXCEPT
                !.results = IF out.ok
                            THEN @ \o scanHistory(task.symbol, task.timeframe,
                                                  out.candles, report.minZ)
                            ELSE @,
                !.fetched = IF out.ok THEN @ \cup {task} ELSE @,
                !.failed = IF out.ok THEN @ ELSE @ \cup {task},
                !.pending = rest,
                !.pc = IF rest = {} THEN "delay" ELSE "batch"]
    /\ UNCHANGED <<scannerVars, symbols, events, cycles, nCycles, mkt, op,
                   listeners, notifying>>

\* generateReport publishing its results to the store when it returns
ReportDelayElapsesPublishes ==
    /\ report.pc = "delay"
    /\ report' = ReportFrom(report, report.i + REPORT_BATCH_SIZE)
    /\ events' = IF report'.pc = "returned" THEN setEvents(report'.results) ELSE events
    /\ op' = IF report'.pc = "returned"
             THEN Op("setEvents", 0, <<>>, report'.results, {"setEvents", "notify"})
             ELSE op
    /\ UNCHANGED <<scannerVars, symbols, cycles, nCycles, mkt, listeners, notifying>>

\* the delay after a batch elapses: next batch, or sort and return
ReportDelayElapses ==
    /\ report.pc = "delay"
    /\ report' = ReportFrom(report, report.i + REPORT_BATCH_SIZE)
    /\ UNCHANGED <<scannerVars, symbols, events, cycles, nCycles, mkt, op,
                   listeners, notifying>>

NextReport ==
    \/ (nCycles = 0 /\ Start)
    \/ Stop
    \/ \E c \in 1..Len(cycles) : UniverseArrives(c)
    \/ \E c \in 1..Len(cycles) : \E scan \in cycles[c].pending :
          \E out \in FetchOutcomes : ScanSettles(c, scan, out)
    \/ \E c \in 1..Len(cycles) : DelayElapses(c)
    \/ \E minZ \in MinZScores : GenerateReport(minZ)
    \/ \E task \in report.pending : \E out \in ReportFetchOutcomes(task) :
          ReportFetchSettles(task, out)
    \/ ReportDelayElapses
    \/ NewBar

SpecReport == Init /\ [][NextReport]_vars

(***************************************************************************)
(* Properties of the scanner (specification Spec).                         *)
(***************************************************************************)
\* the ids of the stored events
EventIds(evs) == {evs[j].id : j \in 1..Len(evs)}

\* newest first by bar time
SortedNewestFirst(evs) == \A a, b \in 1..Len(evs) : a < b => evs[a].time >= evs[b].time

\* the cycles in flight without cycle c
WithoutCycle(c) ==
    [j \in 1..(Len(cycles) - 1) |-> IF j < c THEN cycles[j] ELSE cycles[j + 1]]

\* C1: in every reachable state, whatever the interleaving of poll cycles,
\* batches, stop() and start(), no two events of the store have the same id
C1_NoTwoEventsShareAnId ==
    \A a, b \in 1..Len(events) : a # b => events[a].id # events[b].id

\* a second session's live scan polled a crossing bar whose event is stored
C1_Witness ==
    /\ nTimers >= 2
    /\ op.name = "scanLive"
    /\ "addEvent" \notin op.fx
    /\ Len(op.candles) >= MIN_CANDLES
    /\ <<op.symbol, "5m", op.candles[Len(op.candles)].time>> \in EventIds(events)

\* C5: while the running flag is false after stop(), a cycle still in flight
\* has no side effect: the events (addEvent, setEvents), the candle cache and
\* the backfill flag stay as they are and no alert is signalled
C5_NoSideEffectWhileStopped ==
    [][(~isScanning /\ ~isScanning')
         => /\ events' = events
            /\ symbols' = symbols
            /\ initialBackfillDone' = initialBackfillDone
            /\ (op' # op => op'.fx \cap {"ping", "title"} = {})]_vars

\* C6: while stopped no interval timer is active, and a poll cycle is
\* launched only by a step that leaves the scanner running (the timer of a
\* running scanner, or start())
C6_NoCycleStartsWhileStopped ==
    /\ [](~isScanning => timers = {})
    /\ [][nCycles' # nCycles => isScanning']_vars

\* stopped for the second time, with a poll cycle still in flight
C6_Witness ==
    /\ ~isScanning
    /\ op.name = "stop"
    /\ nTimers = 2
    /\ Len(cycles) > 0

\* C7: a start() while running changes nothing (no new cycle, no new timer,
\* no reset of the backfill flag), and at most one interval timer is active
C7_StartWhileRunningIsNoOp ==
    /\ [](Cardinality(timers) <= 1)
    /\ [][(isScanning /\ op'.name \in {"start", "startNoop"} /\ op' # op)
            => UNCHANGED <<scannerVars, symbols, events, cycles, nCycles>>]_vars

\* start() was called on a running scanner whose backfill is complete and
\* which has a cycle in flight
C7_Witness ==
    /\ op.name = "startNoop"
    /\ isScanning
    /\ initialBackfillDone
    /\ Len(cycles) > 0
    /\ Cardinality(timers) = 1

\* C8: while the backfill flag is false the events change only by the one
\* bulk replace that ends the phase (never by addEvent), and that replace
\* holds the events collected by the committing cycle, newest first
C8_BackfillEmitsOneBulkReplace ==
    [][(~initialBackfillDone /\ events' # events)
         => /\ "addEvent" \notin op'.fx
            /\ "setEvents" \in op'.fx
            /\ initialBackfillDone'
            /\ SortedNewestFirst(events')
            /\ \E c \in 1..Len(cycles) :
                  /\ cycles' = WithoutCycle(c)
                  /\ EventIds(events') \subseteq EventIds(cycles[c].backfillEvents)
                  /\ Len(events') = Min(CAP, Len(cycles[c].backfillEvents))]_vars

\* C9: a cycle begun with the backfill flag set scans in live mode only
\* (newest bar, addEvent path) and never commits a bulk replace
C9_LiveCyclesScanNewestBarOnly ==
    /\ [](\A c \in 1..Len(cycles) :
            cycles[c].live => \A scan \in cycles[c].pending : ~scan.isBackfill)
    /\ [][("setEvents" \in op'.fx /\ op' # op)
            => \E c \in 1..Len(cycles) : ~cycles[c].live /\ cycles' = WithoutCycle(c)]_vars
    /\ [][(op'.name = "scanLive" /\ events' # events)
            => /\ "addEvent" \in op'.fx
               /\ events'[1].time = op'.candles[Len(op'.candles)].time
               /\ Slice(events', 1, CAP) = Slice(events, 0, CAP - 1)]_vars

(***************************************************************************)
(* Properties of the store and of the live scan (specification SpecStore). *)
(***************************************************************************)
\* C2: an addEvent whose id is already present leaves the event list
\* unchanged, so the store never holds two events with equal id
C2_DuplicateAddEventIsNoOp ==
    /\ [][(op'.name = "addEvent" /\ op'.arg[1].id \in EventIds(events))
            => events' = events]_vars
    /\ [](\A a, b \in 1..Len(events) : a # b => events[a].id # events[b].id)

C4_SetEventsEnforcesCap ==
    [][op'.name = "setEvents"
         => /\ Len(events') = Min(CAP, Len(op'.arg))
            /\ SortedNewestFirst(events')
            /\ EventIds(events') \subseteq EventIds(op'.arg)
            /\ \A j \in 1..Len(op'.arg) :
                  op'.arg[j].id \notin EventIds(events')
                     => \A k \in 1..Len(events') : events'[k].time >= op'.arg[j].time]_vars

\* setEvents was called with more than CAP events, oldest first
C4_Witness ==
    /\ op.name = "setEvents"
    /\ Len(op.arg) > CAP
    /\ op.arg[1].time < op.arg[Len(op.arg)].time
    /\ Len(events) = CAP

\* C10: a live scan that repeats the scan before it (same symbol, same
\* candles) leaves the events as they are, notifies no subscriber and
\* signals no alert
C10_RepeatedLiveScanIsIdempotent ==
    [][op'.rep => /\ events' = events
                  /\ op'.fx \cap {"addEvent", "notify", "ping", "title"} = {}]_vars

\* the newest bar crosses the threshold, its event is stored and the scan
\* was repeated
C10_Witness ==
    /\ op.rep
    /\ Len(events) > 0
    /\ events[1].id = <<op.symbol, "5m", op.candles[Len(op.candles)].time>>
    /\ events[1].severity = "high"

(***************************************************************************)
(* Failure handling and alerts of the scanner (specification Spec).        *)
(***************************************************************************)
\* the step is the continuation of a scanSymbol call whose fetch failed
FailedScanStep ==
    /\ op'.name \in {"scanBackfill", "scanLive"}
    /\ "error" \in op'.fx
    /\ \E c \in 1..Len(cycles) :
          cycles[c].pc = "batch" /\ (c > Len(cycles') \/ cycles'[c] # cycles[c])

InDiscovery(cycle) == cycle.pc \in {"universe", "backoff"}

\* C18: a discovery call makes at most MAX_RETRIES attempts; a failed attempt
\* that is not the last is followed by the wait and then by one more attempt
\* (so the call ends after a bounded number of steps), the error is thrown
\* only by the failure of attempt MAX_RETRIES, and a successful attempt
\* returns its universe at once
C18_DiscoveryMakesAtMostThreeAttempts ==
    /\ [](\A c \in 1..Len(cycles) :
            InDiscovery(cycles[c]) => cycles[c].attempt < MAX_RETRIES)
    /\ [][\A c \in 1..Len(cycles) :
            (/\ Len(cycles') = Len(cycles)
             /\ InDiscovery(cycles[c])
             /\ InDiscovery(cycles'[c])
             /\ cycles'[c] # cycles[c])
               => \/ /\ cycles[c].pc = "universe"
                     /\ cycles'[c].pc = "backoff"
                     /\ cycles'[c].attempt = cycles[c].attempt + 1
                  \/ /\ cycles[c].pc = "backoff"
                     /\ cycles'[c].pc = "universe"
                     /\ cycles'[c].attempt = cycles[c].attempt]_vars
    /\ [][(op'.name = "universeFailed" /\ Len(cycles') < Len(cycles))
            => \E c \in 1..Len(cycles) :
                  /\ cycles[c].pc = "universe"
                  /\ cycles[c].attempt = MAX_RETRIES - 1
                  /\ cycles' = WithoutCycle(c)]_vars
    /\ [][(op'.name = "universe" /\ cycles' # cycles)
            => /\ Len(symbols') = NumSymbols
               /\ \A j \in 1..NumSymbols : symbols'[j].symbol = UniverseNames[j]]_vars

\* one call has thrown after its last attempt while another waits before
\* its last attempt
C18_Witness ==
    /\ op.name = "universeFailed"
    /\ \E c \in 1..Len(cycles) :
          cycles[c].pc = "backoff" /\ cycles[c].attempt = MAX_RETRIES - 1

\* C19: the step in which discovery throws inside a cycle changes neither
\* the running flag, the timer, the symbols, the events nor the backfill
\* flag, and a cycle launched while the store has no symbols starts with
\* discovery
C19_DiscoveryFailureKeepsScannerRunning ==
    /\ [][(op'.name = "universeFailed" /\ Len(cycles') < Len(cycles))
            => UNCHANGED <<scannerVars, symbols, events>>]_vars
    /\ [][(nCycles' = nCycles + 1 /\ symbols = <<>>)
            => /\ Len(cycles') = Len(cycles) + 1
               /\ cycles'[Len(cycles')].pc = "universe"
               /\ cycles'[Len(cycles')].attempt = 0]_vars

\* discovery has thrown in one cycle, the scanner is running with its timer
\* and a later cycle is attempting discovery
C19_Witness ==
    /\ op.name = "universeFailed"
    /\ isScanning
    /\ timers = {intervalId}
    /\ ~initialBackfillDone
    /\ symbols = <<>>
    /\ events = <<>>
    /\ nCycles >= 2
    /\ \E c \in 1..Len(cycles) : cycles[c].pc = "universe"

\* the step inserted a new event of the scanned symbol's newest bar through
\* the live path
NewLiveEventStep ==
    /\ op'.name = "scanLive"
    /\ "addEvent" \in op'.fx
    /\ "setEvents" \notin op'.fx
    /\ Len(events') > 0
    /\ events'[1].id \notin EventIds(events)
    /\ events'[1].id = <<op'.symbol, "5m", op'.candles[Len(op'.candles)].time>>

\* C20 as stated: the sound and the title update are signalled only for a
\* newly inserted live event of severity high
C20_AlertOnlyForNewHighLiveEvent ==
    [][((op' # op \/ events' # events) /\ op'.fx \cap {"ping", "title"} # {})
         => (NewLiveEventStep /\ events'[1].severity = "high")]_vars

\* C20 amended: the sound is signalled only for a newly inserted live event
\* of severity high, the title update only for a newly inserted live event
\* (of either severity); never for a duplicate or for the bulk replace
C20_SoundOnlyForNewHighLiveEvent ==
    [][(op' # op \/ events' # events)
         => /\ ("ping" \in op'.fx => (NewLiveEventStep /\ events'[1].severity = "high"))
            /\ ("title" \in op'.fx => NewLiveEventStep)]_vars

\* a live scan inserted an event of severity high and played the sound
C20_Witness ==
    /\ op.name = "scanLive"
    /\ "ping" \in op.fx
    /\ events[1].severity = "high"

(***************************************************************************)
(* The scans as functions of the candle list (specification SpecScan).     *)
(* In op, arg holds the call's argument, if any, and then its result.      *)
(***************************************************************************)
Returned(o) == o.arg[Len(o.arg)]

\* the times of the bars an event list reports
EventTimes(list) == {list[j].time : j \in 1..Len(list)}

\* (volume - ema) / stdDev = t, for an integer t >= 0 and stdDev # 0
ZScoreEquals(volume, stats, t) ==
    LET d == volume * stats.den - stats.emaNum
    IN  d >= 0 /\ d * d * stats.n = t * t * stats.sqSum

\* bar i (0-based) of the list has a baseline with a nonzero deviation and a
\* z-score of exactly t
AtBoundary(candles, i, stats, t) ==
    /\ stats # Null
    /\ ~StdDevIsZero(stats)
    /\ ZScoreEquals(candles[i + 1].volume, stats, t)

\* C11: a bar whose z-score equals the configured minZScore is reported by
\* the backfill scan, by the live scan and by the report scan
C11_BoundaryBarProducesEvent ==
    /\ op.name = "analyzeHistory"
         => \A i \in MIN_CANDLES..(Len(op.candles) - 1) :
               AtBoundary(op.candles, i, getStatsForWindow(op.candles, i, PERIOD), minZScore)
                 => op.candles[i + 1].time \in EventTimes(Returned(op))
    /\ op.name = "analyzeLatest"
         => LET i == Len(op.candles) - 1
            IN  AtBoundary(op.candles, i, getStatsForWindow(op.candles, i, PERIOD), minZScore)
                  => <<1, "5m", op.candles[i + 1].time>> \in EventIds(events)
    /\ (op.name = "scanHistory" /\ Len(op.candles) >= REPORT_PERIOD + 1)
         => \A i \in REPORT_PERIOD..(Len(op.candles) - 1) :
               AtBoundary(op.candles, i, calculateStats(ReportWindow(op.candles, i)), op.arg[1])
                 => op.candles[i + 1].time \in EventTimes(Returned(op))

\* the volumes of the list are all the same
IdenticalVolumes(candles) ==
    \A a, b \in 1..Len(candles) : candles[a].volume = candles[b].volume

\* C12: a bar whose baseline has a zero deviation is reported by no scan:
\* backfill, live, report, and the live scan of the volume-ratio revision
C12_NoEventOnZeroDeviation ==
    /\ op.name = "analyzeHistory"
         => \A i \in MIN_CANDLES..(Len(op.candles) - 1) :
               LET stats == getStatsForWindow(op.candles, i, PERIOD)
               IN  (stats # Null /\ StdDevIsZero(stats))
                     => op.candles[i + 1].time \notin EventTimes(Returned(op))
    /\ op.name = "analyzeLatest"
         => LET stats == getStatsForWindow(op.candles, Len(op.candles) - 1, PERIOD)
            IN  (stats # Null /\ StdDevIsZero(stats)) => "addEvent" \notin op.fx
    /\ op.name = "scanHistory"
         => \A i \in REPORT_PERIOD..(Len(op.candles) - 1) :
               LET stats == calculateStats(ReportWindow(op.candles, i))
               IN  (stats # Null /\ StdDevIsZero(stats))
                     => op.candles[i + 1].time \notin EventTimes(Returned(op))
    /\ op.name = "analyze"
         => (IdenticalVolumes(LastN(Slice(op.candles, 0, Len(op.candles) - 1), VR_PERIOD))
               => "addEvent" \notin op.fx)

\* the list with the volume of bar i (0-based) replaced
WithVolume(candles, i, v) == [candles EXCEPT ![i + 1].volume = v]

\* C13: the statistics computed for bar i are the same whatever the volume
\* of bar i is: in the scanner, in its 3-bar revision and in the reporter
C13_BaselineExcludesScoredBar ==
    /\ op.name = "getStatsForWindow"
         => \A v \in ScanVolumes :
               getStatsForWindow(WithVolume(op.candles, op.arg[1], v), op.arg[1], PERIOD)
                 = Returned(op)
    /\ op.name = "calculateStatistics"
         => \A v \in ScanVolumes :
               calculateStatistics(
                   Slice(WithVolume(op.candles, op.arg[1], v), 0, op.arg[1] + 1), PERIOD)
                 = Returned(op)
    /\ op.name = "calculateStats"
         => \A v \in ScanVolumes :
               calculateStats(ReportWindow(WithVolume(op.candles, op.arg[1], v), op.arg[1]))
                 = Returned(op)

\* statistics with a nonzero deviation were computed for the newest bar of a
\* list long enough to be scanned
C13_Witness ==
    /\ op.name = "getStatsForWindow"
    /\ op.arg[1] = Len(op.candles) - 1
    /\ op.arg[1] >= MIN_CANDLES
    /\ Returned(op) # Null
    /\ ~StdDevIsZero(Returned(op))

(***************************************************************************)
(* StoreService.subscribe and notify (specification SpecNotify).           *)
(* listeners is the Set in insertion order.  Set.prototype.forEach visits  *)
(* the entries in that order, including entries added during the           *)
(* iteration, and skips entries deleted before their turn; cursor is the   *)
(* number of present entries the iteration has passed.                     *)
(***************************************************************************)
Listeners == 1..NumListeners

\* listeners.add(listener): a Set keeps one entry per value
SetAdd(set, l) == IF l \in {set[j] : j \in 1..Len(set)} THEN set ELSE Append(set, l)

\* the entries of the Set other than l, in order
RECURSIVE SetDelete(_, _)
SetDelete(set, l) ==
    IF set = <<>> THEN <<>>
    ELSE IF Head(set) = l THEN Tail(set)
         ELSE <<Head(set)>> \o SetDelete(Tail(set), l)

\* the number of entries among the first n that are l
Before(set, n, l) == Cardinality({j \in 1..Min(n, Len(set)) : set[j] = l})

\* what the body of a listener may do with the store's subscriptions
ListenerActs ==
    {[kind |-> "none", listener |-> 0]}
      \cup {[kind |-> k, listener |-> l] : k \in {"subscribe", "unsubscribe"}, l \in Listeners}

\* Store.subscribe(l), outside a notification
Subscribe(l) ==
    /\ notifying.pc # "calling"
    /\ listeners' = SetAdd(listeners, l)
    /\ UNCHANGED <<scannerVars, symbols, events, cycles, nCycles, mkt, op, report, notifying>>

\* the function returned by subscribe(l) is called, outside a notification
Unsubscribe(l) ==
    /\ notifying.pc # "calling"
    /\ listeners' = SetDelete(listeners, l)
    /\ UNCHANGED <<scannerVars, symbols, events, cycles, nCycles, mkt, op, report, notifying>>

\* notify() is entered: forEach starts on the Set
Notify ==
    /\ notifying.pc # "calling"
    /\ notifying' = [pc |-> "calling", cursor |-> 0, called |-> <<>>, atStart |-> listeners]
    /\ UNCHANGED <<scannerVars, symbols, events, cycles, nCycles, mkt, op, report, listeners>>

\* forEach calls the next entry, whose body does act
ListenerCalled(act) ==
    /\ notifying.pc = "calling"
    /\ notifying.cursor < Len(listeners)
    /\ Len(notifying.called) < MaxCalls
    /\ LET l == listeners[notifying.cursor + 1]
           passed == notifying.cursor + 1
       IN  /\ listeners' = IF act.kind = "subscribe" THEN SetAdd(listeners, act.listener)
                           ELSE IF act.kind = "unsubscribe"
                                THEN SetDelete(listeners, act.listener)
                                ELSE listeners
           /\ notifying' = [notifying EXCEPT
                              !.called = Append(@, l),
                              !.cursor = IF act.kind = "unsubscribe"
                                         THEN passed - Before(listeners, passed, act.listener)
                                         ELSE passed]
    /\ UNCHANGED <<scannerVars, symbols, events, cycles, nCycles, mkt, op, report>>

\* forEach finds no further entry: notify() returns
NotifyReturns ==
    /\ notifying.pc = "calling"
    /\ notifying.cursor >= Len(listeners)
    /\ notifying' = [notifying EXCEPT !.pc = "returned"]
    /\ UNCHANGED <<scannerVars, symbols, events, cycles, nCycles, mkt, op, report, listeners>>

NextNotify ==
    \/ \E l \in Listeners : Subscribe(l)
    \/ \E l \in Listeners : Unsubscribe(l)
    \/ Notify
    \/ \E act \in ListenerActs : ListenerCalled(act)
    \/ NotifyReturns

SpecNotify == Init /\ [][NextNotify]_vars

\* the first n elements of list are the list prefix
IsPrefix(prefix, list) ==
    /\ Len(prefix) <= Len(list)
    /\ \A j \in 1..Len(prefix) : prefix[j] = list[j]

\* C17: the listeners a notification calls are, in order, the listeners
\* registered when it began: never another one, never one twice, and all of
\* them by the time it returns, whatever the listeners subscribe or
\* unsubscribe meanwhile
C17_NotificationReachesStartingObservers ==
    /\ notifying.pc \in {"calling", "returned"}
         => IsPrefix(notifying.called, notifying.atStart)
    /\ notifying.pc = "returned" => notifying.called = notifying.atStart

(***************************************************************************)
(* The report generator (specification SpecReport).  In report, fetched    *)
(* and failed record the tasks whose fetch resolved and rejected.          *)
(***************************************************************************)
SeqToSet(list) == {list[j] : j \in 1..Len(list)}

\* the events the scan of a task's candles yields
TaskEvents(task, minZ) ==
    SeqToSet(scanHistory(task.symbol, task.timeframe, ReportCandles(task), minZ))

\* C15: a report never ends by a rejection; its results are at every moment
\* exactly the events of the tasks fetched so far, each once, and when it
\* returns every task has been tried and the results are the events of the
\* tasks whose fetch succeeded, newest first
C15_ReportSkipsFailedTasks ==
    /\ report.pc \in {"idle", "batch", "delay", "returned"}
    /\ SeqToSet(report.results) = UNION {TaskEvents(task, report.minZ) : task \in report.fetched}
    /\ Len(report.results) = Cardinality(SeqToSet(report.results))
    /\ \A task \in report.failed : TaskEvents(task, report.minZ) \cap SeqToSet(report.results) = {}
    /\ report.pc = "returned"
         => /\ report.fetched \cup report.failed = SeqToSet(ReportTasks)
            /\ report.fetched \cap report.failed = {}
            /\ SortedNewestFirst(report.results)

\* a report over the symbols and two timeframes returned with one fetch
\* failed: it holds the events of the other tasks, one each
C15_Witness ==
    /\ report.pc = "returned"
    /\ report.minZ = minZScore
    /\ Cardinality(report.failed) = 1
    /\ Cardinality(report.fetched) = Len(ReportTasks) - 1
    /\ Len(report.results) = Len(ReportTasks) - 1

\* C16: a step of generateReport changes neither the scanner's flags and
\* timer, the store's symbols (candle cache) and events, nor the cycles in
\* flight, and raises no notification
C16_ReportLeavesSharedStateUnchanged ==
    [][report' # report
         => UNCHANGED <<scannerVars, symbols, events, cycles, nCycles, mkt, op,
                        listeners, notifying>>]_vars

\* a report has fetched a task while the running scanner is inside a batch
\* of its cycle with candles already cached
C16_Witness ==
    /\ report.pc = "batch"
    /\ report.fetched # {}
    /\ isScanning
    /\ Len(cycles) > 0
    /\ cycles[1].pc = "batch"
    /\ Len(symbols) > 0
    /\ symbols[1].candles # <<>>

(***************************************************************************)
(* Restarts, batches and overlapping poll cycles (Spec and SpecReport).    *)
(***************************************************************************)
\* the cycle was launched by the latest start() call
OfLatestStart(cycle) == cycle.session = nTimers

\* cycle c returns in this step, from the 200 ms delay after its last batch
\* or from the break
ReturnsAfterDelay(c) == cycles[c].pc = "delay" /\ cycles' = WithoutCycle(c)

\* C21: after stop() and then start() the controller is backfilling again:
\* that start() leaves the backfill-complete flag reset, every scan of the
\* poll cycle it launched is made in backfill mode, and while the scanner is
\* left running that cycle returns with the bulk replace
C21_RestartReentersBackfill ==
    [][/\ (nTimers >= 1 /\ nTimers' = nTimers + 1) => ~initialBackfillDone'
       /\ \A c \in 1..Len(cycles) :
             (nTimers >= 2 /\ OfLatestStart(cycles[c]))
                => /\ \A scan \in cycles[c].pending : scan.isBackfill
                   /\ (isScanning /\ ReturnsAfterDelay(c)) => "setEvents" \in op'.fx]_vars

\* the symbols of the batch a cycle is at
BatchOf(cycle) ==
    {cycle.symbols[j] : j \in (cycle.i + 1)..Min(cycle.i + BATCH_SIZE, Len(cycle.symbols))}

\* the tasks of the batch a report run is at
ReportBatchOf(r) ==
    {ReportTasks[t] : t \in (r.i + 1)..Min(r.i + REPORT_BATCH_SIZE, Len(ReportTasks))}

\* C22: within one poll cycle and within one report run the batches run
\* strictly one after the other: the outstanding scans all belong to the
\* batch the run is at and number at most the batch size, and the run moves
\* to the next batch (launches a scan) only from a state where no scan of
\* its current batch is outstanding
C22_BatchesRunInSequence ==
    [][/\ \A c \in 1..Len(cycles) :
            /\ Cardinality(cycles[c].pending) <= BATCH_SIZE
            /\ {scan.symbol : scan \in cycles[c].pending} \subseteq BatchOf(cycles[c])
            /\ (Len(cycles') = Len(cycles) /\ cycles[c].pending # {})
                  => /\ cycles'[c].i = cycles[c].i
                     /\ cycles'[c].pending \subseteq cycles[c].pending
       /\ Cardinality(report.pending) <= REPORT_BATCH_SIZE
       /\ report.pending \subseteq ReportBatchOf(report)
       /\ report.pending # {}
             => /\ report'.i = report.i
                /\ report'.pending \subseteq report.pending]_vars

\* a poll cycle and a report run are both at their second batch, each with
\* a scan outstanding
C22_Witness ==
    /\ \E c \in 1..Len(cycles) : cycles[c].i >= BATCH_SIZE /\ cycles[c].pending # {}
    /\ report.i >= REPORT_BATCH_SIZE
    /\ report.pending # {}

\* the symbols whose scan is outstanding in a cycle
InFlight(cycle) == {scan.symbol : scan \in cycle.pending}

\* C23: at no time are two scans of the same symbol in flight, whatever the
\* timing of the polling timer, of slow fetches and of stop()/start()
C23_NoTwoScansOfOneSymbolInFlight ==
    \A a, b \in 1..Len(cycles) : a # b => InFlight(cycles[a]) \cap InFlight(cycles[b]) = {}

\* C24: a poll cycle that began with an empty universe scans no symbol
\* before the fetched universe arrives, stores the universe and returns
\* without scanning a symbol
C24_DiscoveryCycleScansNoSymbol ==
    [][\A c \in 1..Len(cycles) :
          /\ InDiscovery(cycles[c]) => cycles[c].pending = {}
          /\ UniverseArrives(c)
                => /\ [j \in 1..Len(symbols') |-> symbols'[j].symbol] = UniverseNames
                   /\ cycles' = WithoutCycle(c)]_vars

\* cycle c sets the backfill-complete flag (and commits the bulk replace) in
\* this step
CommitsBackfill(c) ==
    /\ DelayElapses(c) \/ UniverseArrives(c)
    /\ "flag" \in op'.fx

\* C30: the bulk replace that completes a session's backfill is committed
\* only by the poll cycle that session's start() launched, after all its
\* batches ran, and holds the backfill events that cycle collected; a cycle
\* left in flight across stop()/start() commits no bulk replace and does not
\* set the backfill-complete flag of the new session
C30_OnlyTheSessionsStartCycleCommits ==
    [][\A c \in 1..Len(cycles) :
          CommitsBackfill(c)
             => /\ OfLatestStart(cycles[c])
                /\ cycles[c].pc = "delay"
                /\ cycles[c].i + BATCH_SIZE >= Len(cycles[c].symbols)
                /\ events' = setEvents(SortByTimeDesc(cycles[c].backfillEvents))]_vars

(***************************************************************************)
(* The scanner with the upstream's answer and its arrival as two steps     *)
(* (specification SpecOrder): fetchCandles sends its request when the scan *)
(* is launched, the upstream answers with the series as it is at that      *)
(* moment, and the response resolves the awaiting scan later, in any order *)
(* with the responses of other scans.  A pending scan that has been        *)
(* answered carries the number of bars of its response in the field bars.  *)
(***************************************************************************)
\* the upstream answers the request of a scan of cycle c
ResponseSent(c, scan) ==
    /\ cycles[c].pc = "batch"
    /\ scan \in cycles[c].pending
    /\ "bars" \notin DOMAIN scan
    /\ cycles' = [cycles EXCEPT
                    ![c].pending = (@ \ {scan}) \cup
                                      {[symbol |-> scan.symbol, isBackfill |-> scan.isBackfill,
                                        bars |-> Len(mkt)]}]
    /\ UNCHANGED <<scannerVars, symbols, events, nCycles, mkt, op, clientVars>>

\* the response of an answered scan of cycle c arrives: fetchCandles
\* resolves with the newest LOOKBACK candles the upstream had when it answered
ResponseArrives(c, scan) ==
    /\ "bars" \in DOMAIN scan
    /\ ScanSettles(c, scan,
                   [ok |-> TRUE, candles |-> LastN(UpstreamSeries(scan.bars), LOOKBACK)])

NextOrder ==
    \/ (nCycles = 0 /\ Start)
    \/ TimerFires
    \/ \E c \in 1..Len(cycles) : UniverseArrives(c)
    \/ \E c \in 1..Len(cycles) : \E scan \in cycles[c].pending : ResponseSent(c, scan)
    \/ \E c \in 1..Len(cycles) : \E scan \in cycles[c].pending : ResponseArrives(c, scan)
    \/ \E c \in 1..Len(cycles) : DelayElapses(c)
    \/ NewBar

SpecOrder == Init /\ [][NextOrder]_vars

\* C29: in every reachable state the store's list is ordered newest-first by
\* bar open time, after the backfill bulk replace and after every live
\* insert, whatever the order in which the scans resolve
C29_StoreIsOrderedNewestFirst == SortedNewestFirst(events)

(***************************************************************************)
(* The report's progress (SpecReport) and the replay scans (SpecScan).     *)
(***************************************************************************)
\* the tasks of the report run that have settled, with a result or an error
SettledTasks == report.fetched \cup report.failed

\* the report run has made a progress call
ProgressReported(r) == r.progress # <<>>

\* C26: the count N of each progress call never exceeds the number of tasks
\* that have settled, N never decreases from one call to the next, and the
\* last call of a run reports total/total
C26_ProgressCountsSettledTasks ==
    [][/\ ProgressReported(report) => report.progress[1] <= Cardinality(SettledTasks)
       /\ (ProgressReported(report) /\ ProgressReported(report'))
             => report'.progress[1] >= report.progress[1]
       /\ report'.pc = "returned"
             => report'.progress = <<Len(ReportTasks), Len(ReportTasks)>>]_vars

\* C26, amended: the progress call is made once per batch when the batch is
\* launched, before any of its tasks settles, and its count N is the index
\* of the batch's last task: N is the number of tasks settled plus those of
\* the batch still outstanding, N rises with every call, and the last call
\* reports total/total
C26_ProgressAnnouncesEachBatch ==
    [][/\ ProgressReported(report)
             => /\ report.progress[2] = Len(ReportTasks)
                /\ report.progress[1]
                      = Cardinality(SettledTasks) + Cardinality(report.pending)
       /\ report.pc \in {"batch", "delay"}
             => /\ ProgressReported(report)
                /\ report.progress[1] = Min(report.i + REPORT_BATCH_SIZE, Len(ReportTasks))
       /\ report'.progress # report.progress
             => /\ report'.pc = "batch"
                /\ report'.pending = ReportBatchOf(report')
                /\ ProgressReported(report) => report'.progress[1] > report.progress[1]
       /\ report'.pc = "returned"
             => report'.progress = <<Len(ReportTasks), Len(ReportTasks)>>]_vars

\* the second batch of a run has been announced as total/total and none of
\* its tasks has settled
C26_Witness ==
    /\ report.pc = "batch"
    /\ report.i >= REPORT_BATCH_SIZE
    /\ report.pending = ReportBatchOf(report)
    /\ report.progress = <<Len(ReportTasks), Len(ReportTasks)>>
    /\ Cardinality(SettledTasks) < Len(ReportTasks)

\* the z-scores of a volume against two baselines are the same number
SameZScore(volume, a, b) ==
    LET da == volume * a.den - a.emaNum
        db == volume * b.den - b.emaNum
    IN  /\ (da > 0) = (db > 0)
        /\ (da < 0) = (db < 0)
        /\ da * da * a.n * b.sqSum = db * db * b.n * a.sqSum

\* C27: on the same candles and with the same threshold the report scan and
\* the scanner's backfill scan decide alike at every bar both evaluate (the
\* bars from index MIN_CANDLES on): the same z-score, and either no event
\* from both or the same event (id, direction, severity) from both
C27_ReplayScansAgree ==
    (op.name = "scoreBar" /\ op.arg[1] >= MIN_CANDLES /\ op.arg[2] = Z_THRESHOLD)
       => LET i == op.arg[1]
              a == getStatsForWindow(op.candles, i, PERIOD)
              b == calculateStats(Slice(op.candles, i - PERIOD, i))
          IN  /\ op.arg[3] = op.arg[4]
              /\ (~StdDevIsZero(a) /\ ~StdDevIsZero(b))
                    => SameZScore(op.candles[i + 1].volume, a, b)

\* C28: a full-replay scan scores every bar that has a full warm-up window
\* of `period` bars before it, from the first such index through the newest
\* bar, whatever the length of the fetched list: each such bar that crosses
\* the scan's threshold against the scan's own baseline is among the events
\* the scan returns
C28_ReplayScoresEveryWarmBar ==
    /\ op.name = "analyzeHistory"
         => \A i \in PERIOD..(Len(op.candles) - 1) :
               analyzeHistoryBar(1, "5m", op.candles, i, PERIOD) # <<>>
                 => op.candles[i + 1].time \in EventTimes(Returned(op))
    /\ op.name = "scanHistory"
         => \A i \in REPORT_PERIOD..(Len(op.candles) - 1) :
               scanHistoryBar(1, "5m", op.candles, op.arg[1], i, ReportWindow(op.candles, i)) # <<>>
                 => op.candles[i + 1].time \in EventTimes(Returned(op))

(***************************************************************************)
(* The Universe page against the store (specification SpecUniverse): the   *)
(* refresh button and the per-symbol toggle, while the upstream's ranking  *)
(* of its tickers and the configured symbolCount change between calls.     *)
(* The list the page shows (its React state `symbols`) is the argument of  *)
(* the last operation.                                                     *)
(***************************************************************************)
\* the largest universe fetchMarketUniverse returns (scaled: 50)
UniverseLimit == NumSymbols

\* the tickers the upstream lists: one more than the limit
Tickers == 1..(UniverseLimit + 1)

\* the orders the upstream's ranking may put them in
Rankings == {r \in [Tickers -> Tickers] : \A a, b \in Tickers : a # b => r[a] # r[b]}

\* the values of settings.symbolCount
SymbolCounts == 0..(UniverseLimit + 1)

\* fetchMarketUniverse(settings): the first `limit` tickers of the ranking
fetchMarketUniverse(ranking, symbolCount) ==
    LET limit == Min(Max(symbolCount, 1), UniverseLimit)
    IN  [j \in 1..Min(limit, Len(ranking)) |->
            [symbol |-> ranking[j], price |-> 0, candles |-> <<>>]]

\* the symbols of a list of entries
SymbolNames(syms) == {syms[j].symbol : j \in 1..Len(syms)}

\* symbols.filter(s => s.symbol !== symbol)
WithoutSymbol(syms, symbol) ==
    LET keep == {j \in 1..Len(syms) : syms[j].symbol # symbol}
        Place(k) == CHOOSE j \in keep : Cardinality({h \in keep : h < j}) = k - 1
    IN  [k \in 1..Cardinality(keep) |-> syms[Place(k)]]

\* handleRefresh(): the fetched list is passed to Store.updateSymbols and
\* shown by the page
HandleRefresh(ranking, symbolCount) ==
    LET newSymbols == fetchMarketUniverse(ranking, symbolCount)
    IN  /\ symbols' = updateSymbols(symbols, newSymbols)
        /\ op' = Op("refresh", 0, <<>>, newSymbols, {"updateSymbols", "notify"})
        /\ UNCHANGED <<scannerVars, events, cycles, nCycles, mkt, clientVars>>

\* toggleSymbol(symbol) on a row of the list the page shows
ToggleSymbol(symbol) ==
    /\ symbol \in SymbolNames(op.arg)
    /\ LET newDetails == WithoutSymbol(op.arg, symbol)
       IN  /\ symbols' = updateSymbols(symbols, newDetails)
           /\ op' = Op("toggle", symbol, <<>>, newDetails, {"updateSymbols", "notify"})
    /\ UNCHANGED <<scannerVars, events, cycles, nCycles, mkt, clientVars>>

NextUniverse ==
    \/ \E ranking \in Rankings : \E symbolCount \in SymbolCounts :
          HandleRefresh(ranking, symbolCount)
    \/ \E symbol \in Tickers : ToggleSymbol(symbol)

SpecUniverse == Init /\ [][NextUniverse]_vars

\* C25: after a manual refresh the tracked universe is exactly the fetched
\* list (an entry absent from the new list is gone from the store, so the
\* scanner no longer scans it), and the universe never holds more entries
\* than the largest configurable count
C25_RefreshReplacesUniverse ==
    /\ op.name = "refresh" => SymbolNames(symbols) = SymbolNames(op.arg)
    /\ Len(symbols) <= UniverseLimit

====
